---- MODULE Spec2Model ----
(***************************************************************************)
(* Model of the DealScout negotiation core:                                *)
(*   backend/core/negotiation_loop.py   NegotiationLoop.run_negotiation    *)
(*   backend/agents/buyer_agent.py      BuyerAgent response normalizer     *)
(*   backend/agents/seller_agent.py     SellerAgent response normalizer    *)
(*                                                                         *)
(* Prices are integers counted in sixteenths of a currency unit, so that   *)
(* the multiplications by 0.95 and 0.88 and the midpoints taken by the     *)
(* fallback estimator are exact for the prices drawn below.  Confidence    *)
(* values are counted in tenths.                                           *)
(***************************************************************************)
EXTENDS Integers, Sequences, FiniteSets, TLC

\* ---------------------------------------------------------------------
\* Units and Python values that are not numbers
\* ---------------------------------------------------------------------
\* a price given in whole currency units, in sixteenths
Dollars(n) == n * 16

\* Python None in a price position (absent or null offer_price)
NoneP == -1000000

\* a raw offer_price that float() cannot coerce (e.g. "abc", a list)
NonNum == -1000001

IsNumber(p) == p # NoneP /\ p # NonNum

\* ---------------------------------------------------------------------
\* Settings (backend/config/settings.py)
\* ---------------------------------------------------------------------
\* settings.max_negotiation_turns: 8 by default, read from the environment;
\* the model runs it at a smaller value
max_turns == 3

price_convergence_threshold == Dollars(20)

\* multipliers in percent
buyer_budget_multiplier == 95

seller_minimum_multiplier == 88

Percent(price, pct) == (price * pct) \div 100

\* ---------------------------------------------------------------------
\* Inputs of run_negotiation: (asking price, buyer_budget_override)
\* ---------------------------------------------------------------------
Listings ==
    { <<Dollars(450), NoneP>>,
      <<Dollars(450), Dollars(400)>>,
      <<Dollars(450), 0>>,
      <<Dollars(450), Dollars(0 - 100)>>,
      <<0, NoneP>> }

\* ---------------------------------------------------------------------
\* Raw output of a decision source
\* ---------------------------------------------------------------------
\* message values: kind k and, for templated texts, the price p they quote
Msg(k, p) == [k |-> k, p |-> p]

\* confidence values: kind k ("num", "absent", "null", "nonnum"), tenths v
Conf(k, v) == [k |-> k, v |-> v]

Raw(kind, a, p, m, c) ==
    [kind |-> kind, action |-> a, offer_price |-> p, message |-> m, confidence |-> c]

\* call_llm raised (transport failure, timeout, provider error, missing key)
Raise == Raw("raise", "ABSENT", NoneP, Msg("absent", 0), Conf("absent", 0))

\* call_llm returned text that is not a JSON object
Garbage == Raw("garbage", "ABSENT", NoneP, Msg("absent", 0), Conf("absent", 0))

\* prices below the seller floor (380), between floor and budget (420) and
\* above the asking price (500), as the source of each role may return them
RawPrices(party) ==
    IF party = "buyer"
    THEN { NoneP, NonNum, Dollars(420), Dollars(500) }
    ELSE { NoneP, NonNum, Dollars(380), Dollars(420), Dollars(500) }

RawActions ==
    { "offer", "counter_offer", "accept", "reject", "walk_away", "bogus", "ABSENT" }

\* message / confidence shapes tried together with a counter-offer or accept
RawShapes ==
    { <<Msg("absent", 0), Conf("absent", 0)>>,
      <<Msg("null", 0), Conf("num", 15)>>,
      <<Msg("empty", 0), Conf("nonnum", 0)>>,
      <<Msg("nonstr", 0), Conf("null", 0)>>,
      <<Msg("text", 0), Conf("num", 0 - 5)>> }

RawDecisions(party) ==
    { Raise, Garbage }
    \cup { Raw("dict", a, p, Msg("text", 0), Conf("num", 5)) :
             a \in RawActions, p \in RawPrices(party) }
    \cup { Raw("dict", a, Dollars(420), s[1], s[2]) :
             a \in {"counter_offer", "accept"}, s \in RawShapes }

\* ---------------------------------------------------------------------
\* History scans
\* ---------------------------------------------------------------------
\* variant of Turn that numbers the turns from 0
Turn_ZeroBased(n, party, d) ==
    [turn |-> n - 1, party |-> party, action |-> d.action,
     offer_price |-> d.offer_price, message |-> d.message,
     confidence |-> d.confidence]

Turn(n, party, d) ==
    [turn |-> n, party |-> party, action |-> d.action,
     offer_price |-> d.offer_price, message |-> d.message,
     confidence |-> d.confidence]

\* reversed(history) scan keeping the first non-None offer_price of a party
RECURSIVE LastOffer(_, _)
LastOffer(h, party) ==
    IF Len(h) = 0 THEN NoneP
    ELSE IF h[Len(h)].party = party /\ h[Len(h)].offer_price # NoneP
         THEN h[Len(h)].offer_price
         ELSE LastOffer(SubSeq(h, 1, Len(h) - 1), party)

\* Python truthiness of a price: None and 0 are false
Truthy(p) == p # NoneP /\ p # 0

\* variant of Buyer_fallback_price that forgets the midpoint
Buyer_fallback_price_NoMidpoint(h) ==
    LET last_buyer == LastOffer(h, "buyer")
        last_seller == LastOffer(h, "seller")
    IN  IF Truthy(last_buyer) THEN last_buyer
        ELSE IF Truthy(last_seller) THEN last_seller
        ELSE 0

Buyer_fallback_price(h) ==
    LET last_buyer == LastOffer(h, "buyer")
        last_seller == LastOffer(h, "seller")
    IN  IF Truthy(last_buyer) /\ Truthy(last_seller)
        THEN (last_buyer + last_seller) \div 2
        ELSE IF Truthy(last_buyer) THEN last_buyer
        ELSE IF Truthy(last_seller) THEN last_seller
        ELSE 0

Abs(x) == IF x < 0 THEN 0 - x ELSE x

\* variant of check_convergence with a strict comparison
check_convergence_Strict(h) ==
    LET last_buyer == LastOffer(h, "buyer")
        last_seller == LastOffer(h, "seller")
    IN  /\ Len(h) >= 2
        /\ last_buyer # NoneP
        /\ last_seller # NoneP
        /\ Abs(last_buyer - last_seller) < price_convergence_threshold

check_convergence(h) ==
    LET last_buyer == LastOffer(h, "buyer")
        last_seller == LastOffer(h, "seller")
    IN  /\ Len(h) >= 2
        /\ last_buyer # NoneP
        /\ last_seller # NoneP
        /\ Abs(last_buyer - last_seller) <= price_convergence_threshold

\* ---------------------------------------------------------------------
\* BuyerAgent
\* ---------------------------------------------------------------------
Decision(a, p, m, c) ==
    [action |-> a, offer_price |-> p, message |-> m, confidence |-> c]

Buyer_safe_parse_response(raw) ==
    IF raw.kind = "garbage"
    THEN Decision("offer", NoneP, Msg("parse_fallback", 0), Conf("num", 5))
    ELSE Decision(raw.action, raw.offer_price, raw.message, raw.confidence)

Buyer_valid_actions == { "offer", "counter_offer", "accept", "reject", "walk_away" }

Buyer_normalize_response(parsed, h) ==
    LET action == IF parsed.action \in Buyer_valid_actions
                  THEN parsed.action ELSE "offer"
        message == IF parsed.message.k = "absent"
                   THEN Msg("default", 0) ELSE parsed.message
        confidence == IF parsed.confidence.k = "absent"
                      THEN Conf("num", 5) ELSE parsed.confidence
        priced == IF action \in {"offer", "counter_offer"}
                  THEN IF IsNumber(parsed.offer_price)
                       THEN parsed.offer_price
                       ELSE Buyer_fallback_price(h)
                  ELSE parsed.offer_price
        offer_price == IF action \in {"walk_away", "reject", "accept"}
                       THEN NoneP ELSE priced
    IN  Decision(action, offer_price, message, confidence)

Buyer_generate_response(raw, h) ==
    Buyer_normalize_response(Buyer_safe_parse_response(raw), h)

\* ---------------------------------------------------------------------
\* SellerAgent
\* ---------------------------------------------------------------------
Seller_safe_parse_response(raw) ==
    IF raw.kind = "garbage"
    THEN Decision("reject", NoneP, Msg("parse_fallback", 0), Conf("num", 5))
    ELSE Decision(raw.action, raw.offer_price, raw.message, raw.confidence)

\* variant of Seller_valid_actions that reuses the buyer's list
Seller_valid_actions_BuyerList ==
    { "offer", "counter_offer", "accept", "reject", "walk_away" }

Seller_valid_actions == { "accept", "reject", "counter_offer" }

Min(a, b) == IF a < b THEN a ELSE b

Max(a, b) == IF a > b THEN a ELSE b

\* isinstance(message, str) and message.strip(): an absent message
\* defaults to ""
IsNonEmptyStr(m) == m.k \notin {"absent", "null", "nonstr", "empty"}

\* variant of Seller_normalize_response that turns an accept below the floor
\* into a counter-offer after the clamping step, leaving its price as it is
Seller_normalize_response_LateDowngrade(parsed, min_acceptable) ==
    LET action0 == IF parsed.action \in Seller_valid_actions
                   THEN parsed.action ELSE "reject"
        coerced == IF IsNumber(parsed.offer_price)
                   THEN parsed.offer_price ELSE NoneP
        offer_price == IF action0 = "counter_offer" /\ coerced # NoneP
                          /\ coerced < min_acceptable
                       THEN min_acceptable ELSE coerced
        action == IF action0 = "accept" /\ offer_price # NoneP
                     /\ offer_price < min_acceptable
                  THEN "counter_offer" ELSE action0
        message == IF IsNonEmptyStr(parsed.message)
                   THEN parsed.message
                   ELSE IF action = "accept" /\ offer_price # NoneP
                        THEN Msg("accept_tpl", offer_price)
                   ELSE IF action = "counter_offer" /\ offer_price # NoneP
                        THEN Msg("counter_tpl", offer_price)
                   ELSE Msg("floor_tpl", min_acceptable)
        confidence_val == IF parsed.confidence.k = "num"
                          THEN parsed.confidence.v ELSE 5
    IN  Decision(action, offer_price, message,
                 Conf("num", Max(0, Min(10, confidence_val))))

Seller_normalize_response(parsed, min_acceptable) ==
    LET action == IF parsed.action \in Seller_valid_actions
                  THEN parsed.action ELSE "reject"
        coerced == IF IsNumber(parsed.offer_price)
                   THEN parsed.offer_price ELSE NoneP
        offer_price == IF action = "counter_offer" /\ coerced # NoneP
                          /\ coerced < min_acceptable
                       THEN min_acceptable ELSE coerced
        message == IF IsNonEmptyStr(parsed.message)
                   THEN parsed.message
                   ELSE IF action = "accept" /\ offer_price # NoneP
                        THEN Msg("accept_tpl", offer_price)
                   ELSE IF action = "counter_offer" /\ offer_price # NoneP
                        THEN Msg("counter_tpl", offer_price)
                   ELSE Msg("floor_tpl", min_acceptable)
        confidence_val == IF parsed.confidence.k = "num"
                          THEN parsed.confidence.v ELSE 5
    IN  Decision(action, offer_price, message,
                 Conf("num", Max(0, Min(10, confidence_val))))

\* variant of Seller_generate_response that normalizes without the floor
Seller_generate_response_NoFloor(raw, min_acceptable) ==
    Seller_normalize_response(Seller_safe_parse_response(raw), 0)

Seller_generate_response(raw, min_acceptable) ==
    Seller_normalize_response(Seller_safe_parse_response(raw), min_acceptable)

\* ---------------------------------------------------------------------
\* NegotiationLoop.run_negotiation
\* ---------------------------------------------------------------------
VARIABLES
    pc,              \* "idle" before the call, "loop" inside the for loop, "returned"
    asking_price,    \* float(listing["price"])
    budget_override, \* buyer_budget_override argument (NoneP when not given)
    buyer_budget,    \* buyer_prefs["max_budget"]
    seller_minimum,  \* seller_prefs["min_acceptable"]
    turn_num,        \* loop variable: the turn about to run
    history,         \* list of turn dicts
    messages,        \* list of NegotiationMessage
    final_price,     \* NoneP until a deal sets it
    result,          \* the NegotiationResult returned (status "none" before)
    last_call,       \* outcome of the most recent decision-source invocation
    calls,           \* number of decision-source invocations
    failures         \* number of invocations that raised

\* Inputs and outputs of the helper functions when they are applied on their
\* own (specifications HistSpec and NormSpec below)
VARIABLES
    fn_op,           \* "none", "input", or the function applied last
    fn_history,      \* history argument
    fn_parsed,       \* parsed argument of _normalize_response
    fn_min,          \* seller_prefs["min_acceptable"] in the state argument
    fn_price,        \* value returned by _fallback_price
    fn_bool,         \* value returned by _check_convergence
    fn_dec,          \* Decision returned by _normalize_response
    fn_dec2          \* Decision returned when fn_dec is normalized again

\* Two requests to api.py's /api/negotiate (specification ApiSpec below)
VARIABLES
    api_globals,     \* request whose data negotiate.PLATFORM_DATA,
                     \* BUYER_PREFS and SELLER_PREFS hold (0: module defaults)
    api_pc,          \* per request: "idle", "running", "done"
    api_turn,        \* per request: turn_num of negotiate.run_negotiation
    api_used         \* per request: whose data each turn was decided with

\* api_server.py: the same listing and the same agent outputs given to
\* run_single_negotiation and to run_single_negotiation_streaming
VARIABLES
    single,          \* locals, messages and result of run_single_negotiation
    streaming        \* locals and yielded events of the streaming generator

\* negotiate.py: run_multi_buyer_negotiation
VARIABLES
    multi            \* round_num, the buyers dict, final_buyer, final_price

loopvars == << pc, asking_price, budget_override, buyer_budget, seller_minimum,
               turn_num, history, messages, final_price, result, last_call,
               calls, failures >>

fnvars == << fn_op, fn_history, fn_parsed, fn_min, fn_price, fn_bool,
             fn_dec, fn_dec2 >>

apivars == << api_globals, api_pc, api_turn, api_used >>

srvvars == << single, streaming >>

multivars == << multi >>

vars == << loopvars, fnvars, apivars, srvvars, multivars >>

NegotiationMessage(role, content) == [role |-> role, content |-> content]

\* pydantic accepts content only when it is a str
IsStr(m) == m.k \notin {"null", "nonstr", "absent"}

NoResult == [status |-> "none", negotiated_price |-> 0, savings |-> 0, turn_count |-> 0]

NoCall == [turn |-> 0, party |-> "none", raised |-> FALSE,
           response |-> Decision("none", NoneP, Msg("absent", 0), Conf("absent", 0))]

Call(n, party, raised, response) ==
    [turn |-> n, party |-> party, raised |-> raised, response |-> response]

NoDecision == Decision("none", NoneP, Msg("absent", 0), Conf("absent", 0))

Requests == {1, 2}

\* no helper function applied on its own
FnIdle ==
    /\ fn_op = "none"
    /\ fn_history = << >>
    /\ fn_parsed = NoDecision
    /\ fn_min = 0
    /\ fn_price = NoneP
    /\ fn_bool = FALSE
    /\ fn_dec = NoDecision
    /\ fn_dec2 = NoDecision

\* no request received by api.py
ApiIdle ==
    /\ api_globals = 0
    /\ api_pc = [r \in Requests |-> "idle"]
    /\ api_turn = [r \in Requests |-> 0]
    /\ api_used = [r \in Requests |-> << >>]

Buyers == {1, 2}

\* a NegotiationResult of api_server.py (it has no turn_count)
SrvResult(status, price, savings) ==
    [status |-> status, negotiated_price |-> price, savings |-> savings]

\* neither api_server function called
SingleNotCalled ==
    [pc |-> "idle", asking_price |-> 0, buyer_budget |-> 0, seller_minimum |-> 0,
     turn_num |-> 0, history |-> << >>, final_price |-> NoneP,
     messages |-> << >>, result |-> SrvResult("none", 0, 0)]

StreamingNotCalled ==
    [pc |-> "idle", asking_price |-> 0, buyer_budget |-> 0, seller_minimum |-> 0,
     turn_num |-> 0, history |-> << >>, final_price |-> NoneP,
     events |-> << >>]

SrvIdle ==
    /\ single = SingleNotCalled
    /\ streaming = StreamingNotCalled

\* run_multi_buyer_negotiation not called
MultiIdle ==
    multi = [pc |-> "idle", round_num |-> 0,
             status |-> [b \in Buyers |-> "active"],
             history |-> [b \in Buyers |-> << >>],
             final_buyer |-> 0, final_price |-> NoneP]

\* NegotiationLoop constructed, run_negotiation not called
LoopIdle ==
    /\ pc = "idle"
    /\ asking_price = 0
    /\ budget_override = NoneP
    /\ buyer_budget = 0
    /\ seller_minimum = 0
    /\ turn_num = 0
    /\ history = << >>
    /\ messages = << >>
    /\ final_price = NoneP
    /\ result = NoResult
    /\ last_call = NoCall
    /\ calls = 0
    /\ failures = 0

Init ==
    /\ FnIdle
    /\ ApiIdle
    /\ SrvIdle
    /\ MultiIdle
    /\ pc = "idle"
    /\ asking_price = 0
    /\ budget_override = NoneP
    /\ buyer_budget = 0
    /\ seller_minimum = 0
    /\ turn_num = 0
    /\ history = << >>
    /\ messages = << >>
    /\ final_price = NoneP
    /\ result = NoResult
    /\ last_call = NoCall
    /\ calls = 0
    /\ failures = 0

\* lines 53-57: "if buyer_budget_override:" is false for None and for 0
DeriveBuyerBudget(asking, override) ==
    IF override # NoneP /\ override # 0
    THEN override
    ELSE Percent(asking, buyer_budget_multiplier)

DeriveSellerMinimum(asking) == Percent(asking, seller_minimum_multiplier)

\* lines 50-85: everything up to the for loop
RunNegotiation ==
    /\ pc = "idle"
    /\ \E l \in Listings :
         /\ asking_price' = l[1]
         /\ budget_override' = l[2]
         /\ buyer_budget' = DeriveBuyerBudget(l[1], l[2])
         /\ seller_minimum' = DeriveSellerMinimum(l[1])
    /\ messages' = << NegotiationMessage("system", Msg("started", 0)) >>
    /\ history' = << >>
    /\ final_price' = NoneP
    /\ turn_num' = 1
    /\ pc' = "loop"
    /\ UNCHANGED << result, last_call, calls, failures >>
    /\ UNCHANGED << fnvars, apivars, srvvars, multivars >>

\* variant of AcceptedPrice that takes the default of the .get() call
AcceptedPrice_UsesDefault(response, asking) == asking

\* response.get("offer_price", asking_price): the key is always present in a
\* normalized response, so the default is never used
AcceptedPrice(response, asking) == response.offer_price

\* variant of DealBanner that posts the banner in the name of the party
DealBanner_FromParty(party, price) ==
    IF party = "buyer"
    THEN NegotiationMessage("buyer", Msg("deal_reached", price))
    ELSE NegotiationMessage("seller", Msg("seller_accepted", price))

\* the terminal banner appended when a party ends the loop
DealBanner(party, price) ==
    IF party = "buyer"
    THEN NegotiationMessage("system", Msg("deal_reached", price))
    ELSE NegotiationMessage("system", Msg("seller_accepted", price))

StopBanner(party) ==
    IF party = "buyer"
    THEN NegotiationMessage("system", Msg("buyer_walked_away", 0))
    ELSE NegotiationMessage("system", Msg("seller_rejected", 0))

\* the action that ends the loop without a deal: walk_away for the buyer,
\* reject for the seller
StopAction(party) == IF party = "buyer" THEN "walk_away" ELSE "reject"

AppendConvergence(h, msgs) ==
    IF check_convergence(h)
    THEN Append(msgs, NegotiationMessage("system", Msg("converging", 0)))
    ELSE msgs

\* variant of AfterTurn that closes the deal at the seller's last price
\* once the offers have converged
AfterTurn_AutoAccept(h, msgs, fp, call) ==
    IF check_convergence(h)
    THEN [history |-> h, messages |-> AppendConvergence(h, msgs),
          final_price |-> LastOffer(h, "seller"), exit |-> "break", call |-> call]
    ELSE [history |-> h, messages |-> msgs, final_price |-> fp,
          exit |-> "continue", call |-> call]

\* lines 185-194: the end of an iteration that did not break
AfterTurn(h, msgs, fp, call) ==
    [history |-> h, messages |-> AppendConvergence(h, msgs), final_price |-> fp,
     exit |-> "continue", call |-> call]

\* One iteration of the for loop body (lines 94-194) run on local state
\* (h, msgs, fp) with the raw output of the decision source.  exit is
\* "raise" when an exception leaves the try block, "break" on a break
\* statement and "continue" when the body runs to its end.
Outcome(h, msgs, fp, exit, call) ==
    [history |-> h, messages |-> msgs, final_price |-> fp, exit |-> exit, call |-> call]

TurnBody(party, n, raw, h, msgs, fp, min_acceptable, asking) ==
    IF raw.kind = "raise"
    THEN Outcome(h, msgs, fp, "raise", Call(n, party, TRUE, NoCall.response))
    ELSE
      LET response == IF party = "buyer"
                      THEN Buyer_generate_response(raw, h)
                      ELSE Seller_generate_response(raw, min_acceptable)
          call == Call(n, party, FALSE, response)
          msgs1 == Append(msgs, NegotiationMessage(party, response.message))
          h1 == Append(h, Turn(n, party, response))
      IN  IF ~IsStr(response.message)
          THEN \* NegotiationMessage(...) raises a validation error
               Outcome(h, msgs, fp, "raise", call)
          ELSE IF response.action = "accept"
          THEN LET price == AcceptedPrice(response, asking)
               IN  IF price = NoneP
                   THEN \* f"{final_price:.2f}" raises TypeError on None
                        Outcome(h1, msgs1, price, "raise", call)
                   ELSE Outcome(h1, Append(msgs1, DealBanner(party, price)),
                                price, "break", call)
          ELSE IF response.action = StopAction(party)
          THEN Outcome(h1, Append(msgs1, StopBanner(party)), fp, "break", call)
          ELSE AfterTurn(h1, msgs1, fp, call)

\* variant of ErrorResult that counts the failing turn as well
ErrorResult_CountsFailedTurn(asking, h) ==
    [status |-> "error", negotiated_price |-> asking, savings |-> 0,
     turn_count |-> Len(h) + 1]

\* lines 196-210: the except branch
ErrorResult(asking, h) ==
    [status |-> "error", negotiated_price |-> asking, savings |-> 0,
     turn_count |-> Len(h)]

\* variant of FinalResult that reports the last seller offer when no deal
\* was made
FinalResult_LastSellerOffer(asking, fp, h) ==
    IF fp # NoneP
    THEN [status |-> "success", negotiated_price |-> fp,
          savings |-> asking - fp, turn_count |-> Len(h)]
    ELSE LET p == IF LastOffer(h, "seller") # NoneP
                  THEN LastOffer(h, "seller") ELSE asking
         IN  [status |-> "no_deal", negotiated_price |-> p,
              savings |-> asking - p, turn_count |-> Len(h)]

\* lines 212-237
FinalResult(asking, fp, h) ==
    IF fp # NoneP
    THEN [status |-> "success", negotiated_price |-> fp,
          savings |-> asking - fp, turn_count |-> Len(h)]
    ELSE [status |-> "no_deal", negotiated_price |-> asking, savings |-> 0,
          turn_count |-> Len(h)]

FinalMessages(fp, msgs) ==
    IF fp # NoneP THEN msgs
    ELSE Append(msgs, NegotiationMessage("system", Msg("no_agreement", 0)))

\* variant of LoopEnds whose range runs one turn too far
LoopEnds_OneTurnMore(n, exit) == exit = "break" \/ n > max_turns

\* the for loop is left on a break or after turn max_turns
LoopEnds(n, exit) == exit = "break" \/ n >= max_turns

\* one loop iteration and, when it is the last one, the return
TakeTurn(party, raw) ==
    LET o == TurnBody(party, turn_num, raw, history, messages, final_price,
                      seller_minimum, asking_price)
    IN  /\ history' = o.history
        /\ final_price' = o.final_price
        /\ last_call' = o.call
        /\ calls' = calls + 1
        /\ failures' = IF o.call.raised THEN failures + 1 ELSE failures
        /\ IF o.exit = "raise"
           THEN /\ messages' = Append(o.messages,
                                      NegotiationMessage("system", Msg("error", 0)))
                /\ result' = ErrorResult(asking_price, o.history)
                /\ pc' = "returned"
                /\ turn_num' = turn_num
           ELSE IF LoopEnds(turn_num, o.exit)
           THEN /\ messages' = FinalMessages(o.final_price, o.messages)
                /\ result' = FinalResult(asking_price, o.final_price, o.history)
                /\ pc' = "returned"
                /\ turn_num' = turn_num
           ELSE /\ messages' = o.messages
                /\ result' = result
                /\ pc' = "loop"
                /\ turn_num' = turn_num + 1
        /\ UNCHANGED << asking_price, budget_override, buyer_budget, seller_minimum >>
        /\ UNCHANGED << fnvars, apivars, srvvars, multivars >>

BuyerTurn ==
    /\ pc = "loop"
    /\ turn_num % 2 = 1
    /\ \E raw \in RawDecisions("buyer") : TakeTurn("buyer", raw)

SellerTurn ==
    /\ pc = "loop"
    /\ turn_num % 2 = 0
    /\ \E raw \in RawDecisions("seller") : TakeTurn("seller", raw)

Next == RunNegotiation \/ BuyerTurn \/ SellerTurn

Spec == Init /\ [][Next]_vars

\* ---------------------------------------------------------------------
\* BuyerAgent._fallback_price and NegotiationLoop._check_convergence applied
\* to histories of up to MaxHistLen turns
\* ---------------------------------------------------------------------
MaxHistLen == 3

HistTurnChoices ==
    { <<"buyer", p>> : p \in { NoneP, 0, Dollars(400), Dollars(430) } }
    \cup { <<"seller", p>> :
             p \in { NoneP, 0, Dollars(15), Dollars(440), Dollars(450),
                     Dollars(470) } }

\* a turn dict as the loop records it; a turn without a price is a reject
HistTurn(n, party, price) ==
    [turn |-> n, party |-> party,
     action |-> IF price = NoneP THEN "reject" ELSE "counter_offer",
     offer_price |-> price, message |-> Msg("text", 0),
     confidence |-> Conf("num", 5)]

RECURSIVE HistoriesOfLen(_)
HistoriesOfLen(n) ==
    IF n = 0 THEN { << >> }
    ELSE { Append(h, HistTurn(n, c[1], c[2])) :
             h \in HistoriesOfLen(n - 1), c \in HistTurnChoices }

Histories == UNION { HistoriesOfLen(n) : n \in 0..MaxHistLen }

HistInit ==
    /\ LoopIdle
    /\ ApiIdle
    /\ SrvIdle
    /\ MultiIdle
    /\ fn_op = "input"
    /\ fn_history \in Histories
    /\ fn_parsed = NoDecision
    /\ fn_min = 0
    /\ fn_price = NoneP
    /\ fn_bool = FALSE
    /\ fn_dec = NoDecision
    /\ fn_dec2 = NoDecision

ApplyFallback ==
    /\ fn_op = "input"
    /\ fn_op' = "fallback"
    /\ fn_price' = Buyer_fallback_price(fn_history)
    /\ UNCHANGED << fn_history, fn_parsed, fn_min, fn_bool, fn_dec, fn_dec2 >>
    /\ UNCHANGED << loopvars, apivars, srvvars, multivars >>

ApplyConvergence ==
    /\ fn_op = "input"
    /\ fn_op' = "convergence"
    /\ fn_bool' = check_convergence(fn_history)
    /\ UNCHANGED << fn_history, fn_parsed, fn_min, fn_price, fn_dec, fn_dec2 >>
    /\ UNCHANGED << loopvars, apivars, srvvars, multivars >>

HistNext == ApplyFallback \/ ApplyConvergence

HistSpec == HistInit /\ [][HistNext]_vars

\* ---------------------------------------------------------------------
\* BuyerAgent._normalize_response and SellerAgent._normalize_response
\* applied to a parsed decision, and applied again to their own output
\* ---------------------------------------------------------------------
ParsedMessages ==
    { Msg("absent", 0), Msg("null", 0), Msg("empty", 0), Msg("nonstr", 0),
      Msg("text", 0) }

ParsedConfidences ==
    { Conf("absent", 0), Conf("null", 0), Conf("nonnum", 0),
      Conf("num", 0 - 5), Conf("num", 5), Conf("num", 15) }

\* the dicts _safe_parse_response can hand to the normalizer
ParsedInputs ==
    { Decision(a, p, m, c) :
        a \in RawActions, p \in RawPrices("seller"),
        m \in ParsedMessages, c \in ParsedConfidences }

\* state["history"] of the call: empty, one buyer offer, buyer and seller
NormHistories ==
    { << >>,
      << HistTurn(1, "buyer", Dollars(400)) >>,
      << HistTurn(1, "buyer", Dollars(400)), HistTurn(2, "seller", Dollars(440)) >> }

NormInit ==
    /\ LoopIdle
    /\ ApiIdle
    /\ SrvIdle
    /\ MultiIdle
    /\ fn_op = "input"
    /\ fn_history \in NormHistories
    /\ fn_parsed \in ParsedInputs
    /\ fn_min = DeriveSellerMinimum(Dollars(450))
    /\ fn_price = NoneP
    /\ fn_bool = FALSE
    /\ fn_dec = NoDecision
    /\ fn_dec2 = NoDecision

NormalizeBuyer ==
    /\ fn_op = "input"
    /\ fn_op' = "buyer"
    /\ fn_dec' = Buyer_normalize_response(fn_parsed, fn_history)
    /\ UNCHANGED << fn_history, fn_parsed, fn_min, fn_price, fn_bool, fn_dec2 >>
    /\ UNCHANGED << loopvars, apivars, srvvars, multivars >>

NormalizeSeller ==
    /\ fn_op = "input"
    /\ fn_op' = "seller"
    /\ fn_dec' = Seller_normalize_response(fn_parsed, fn_min)
    /\ UNCHANGED << fn_history, fn_parsed, fn_min, fn_price, fn_bool, fn_dec2 >>
    /\ UNCHANGED << loopvars, apivars, srvvars, multivars >>

RenormalizeBuyer ==
    /\ fn_op = "buyer"
    /\ fn_op' = "buyer2"
    /\ fn_dec2' = Buyer_normalize_response(fn_dec, fn_history)
    /\ UNCHANGED << fn_history, fn_parsed, fn_min, fn_price, fn_bool, fn_dec >>
    /\ UNCHANGED << loopvars, apivars, srvvars, multivars >>

RenormalizeSeller ==
    /\ fn_op = "seller"
    /\ fn_op' = "seller2"
    /\ fn_dec2' = Seller_normalize_response(fn_dec, fn_min)
    /\ UNCHANGED << fn_history, fn_parsed, fn_min, fn_price, fn_bool, fn_dec >>
    /\ UNCHANGED << loopvars, apivars, srvvars, multivars >>

NormNext ==
    NormalizeBuyer \/ NormalizeSeller \/ RenormalizeBuyer \/ RenormalizeSeller

NormSpec == NormInit /\ [][NormNext]_vars

\* ---------------------------------------------------------------------
\* Properties
\* ---------------------------------------------------------------------
Returned == pc = "returned"

NoAcceptOrStop(h) ==
    \A i \in 1..Len(h) :
        /\ h[i].action # "accept"
        /\ h[i].action # StopAction(h[i].party)

\* C1: for a listing with asking_price > 0 the run makes at most max_turns
\* decision-source invocations and has returned once it has made max_turns
\* of them; at most one invocation fails, and a failing invocation is the
\* last one (the run has returned right after it).
C1_BoundedInvocations ==
    asking_price > 0 =>
        /\ calls <= max_turns
        /\ failures <= 1
        /\ (calls = max_turns => Returned)
        /\ (failures = 1 => Returned /\ last_call.raised /\ last_call.turn = calls)

C1_Witness ==
    /\ asking_price > 0
    /\ Returned
    /\ calls = max_turns
    /\ failures = 1
    /\ last_call.raised

\* C2: every result with status "success" has negotiated_price >=
\* min_acceptable (asking_price * seller_minimum_multiplier).
C2_SuccessAtOrAboveFloor ==
    (Returned /\ asking_price > 0 /\ result.status = "success") =>
        result.negotiated_price >= seller_minimum

\* C3: every result with status "success" has negotiated_price <= max_budget.
C3_SuccessAtOrBelowBudget ==
    (Returned /\ asking_price > 0 /\ result.status = "success") =>
        result.negotiated_price <= buyer_budget

\* C4: every returned result has savings = max(0, original_price -
\* negotiated_price), so savings is never negative.
C4_SavingsFloorZero ==
    Returned =>
        result.savings = Max(0, asking_price - result.negotiated_price)

\* C5: when the buyer's normalized decision is accept, the run stops at that
\* turn with status "success" and negotiated_price equal to the accepted
\* price.
C5_BuyerAcceptSucceeds ==
    (last_call.party = "buyer" /\ ~last_call.raised
        /\ last_call.response.action = "accept") =>
        /\ Returned
        /\ result.status = "success"
        /\ result.negotiated_price = final_price
        /\ result.turn_count = last_call.turn

\* C6: when the seller's normalized decision is accept with a numeric price
\* p, the run stops at that turn with status "success", negotiated_price = p
\* and savings = original_price - p, and no further invocation is made.
C6_SellerAcceptWithPrice ==
    (last_call.party = "seller" /\ ~last_call.raised
        /\ last_call.response.action = "accept"
        /\ last_call.response.offer_price # NoneP) =>
        /\ Returned
        /\ result.status = "success"
        /\ result.negotiated_price = last_call.response.offer_price
        /\ result.savings = asking_price - last_call.response.offer_price
        /\ result.turn_count = last_call.turn
        /\ calls = last_call.turn

C6_Witness ==
    /\ Returned
    /\ asking_price = Dollars(450)
    /\ last_call.party = "seller"
    /\ last_call.response.action = "accept"
    /\ LastOffer(SubSeq(history, 1, Len(history) - 1), "buyer") = Dollars(420)
    /\ result.status = "success"
    /\ result.negotiated_price = Dollars(420)
    /\ result.savings = Dollars(30)

\* C7: when all max_turns turns complete with no accept, no buyer walk_away,
\* no seller reject and no failure, the result is no_deal at the asking
\* price with savings 0 and turn_count = max_turns.
C7_TurnExhaustion ==
    (Returned /\ Len(history) = max_turns /\ failures = 0
        /\ NoAcceptOrStop(history)) =>
        /\ result.status = "no_deal"
        /\ result.negotiated_price = asking_price
        /\ result.savings = 0
        /\ result.turn_count = max_turns

C7_Witness ==
    /\ Returned
    /\ Len(history) = max_turns
    /\ failures = 0
    /\ NoAcceptOrStop(history)
    /\ LastOffer(history, "seller") # NoneP
    /\ LastOffer(history, "seller") # asking_price
    /\ result.status = "no_deal"

\* C8: when the decision source invoked on turn k raises, the call returns
\* a result with status "error", turn_count = k - 1, negotiated_price =
\* asking price and savings = 0; the k - 1 earlier turns stay in history.
C8_SourceFailure ==
    last_call.raised =>
        /\ Returned
        /\ Len(history) = last_call.turn - 1
        /\ result.status = "error"
        /\ result.turn_count = last_call.turn - 1
        /\ result.negotiated_price = asking_price
        /\ result.savings = 0

C8_Witness ==
    /\ Returned
    /\ last_call.raised
    /\ last_call.turn = 3
    /\ Len(history) = 2
    /\ result.status = "error"
    /\ result.turn_count = 2

\* C9: as long as no decision-source call itself fails, no raw decision
\* makes the run end with status "error" (stated for the seller's turn of a
\* listing with a positive asking price: a run that returns after a seller
\* decision, with no failed call, has status "success" or "no_deal").
C9_MalformedNeverError ==
    (Returned /\ asking_price > 0 /\ failures = 0
        /\ last_call.party = "seller") =>
        result.status \in {"success", "no_deal"}

\* C10: a call with a non-positive asking price, or with a budget override
\* that is present and non-positive, is rejected before the loop starts: no
\* decision source is invoked and no turn is recorded.
C10_InvalidInputRejected ==
    (pc # "idle"
        /\ (asking_price <= 0 \/ (budget_override # NoneP /\ budget_override <= 0))) =>
        /\ calls = 0
        /\ history = << >>

\* ---------------------------------------------------------------------
\* Properties of the helper functions
\* ---------------------------------------------------------------------
\* positions of the turns of a party that carry a price
PricedTurns(h, party) ==
    { i \in 1..Len(h) : h[i].party = party /\ h[i].offer_price # NoneP }

Latest(I) == CHOOSE i \in I : \A j \in I : j <= i

\* the most recent offer price of a party, NoneP when it has none
RecentPrice(h, party) ==
    IF PricedTurns(h, party) = {} THEN NoneP
    ELSE h[Latest(PricedTurns(h, party))].offer_price

\* the value the four cases give when "found" is decided by isFound
FallbackCases(b, s, isFoundB, isFoundS) ==
    IF isFoundB /\ isFoundS THEN (b + s) \div 2
    ELSE IF isFoundB THEN b
    ELSE IF isFoundS THEN s
    ELSE 0

\* C12: _fallback_price returns the midpoint of the most recent buyer and
\* seller offer prices when both are found, the buyer price when only that
\* is found, the seller price when only that is found, and 0.0 when neither
\* is found; a most recent price whose value is 0 counts as not found.
C12_FallbackCasesZeroNotFound ==
    fn_op = "fallback" =>
        LET b == RecentPrice(fn_history, "buyer")
            s == RecentPrice(fn_history, "seller")
        IN  fn_price = FallbackCases(b, s, b # NoneP /\ b # 0, s # NoneP /\ s # 0)

C12_Witness ==
    /\ fn_op = "fallback"
    /\ Len(fn_history) = 3
    /\ RecentPrice(fn_history, "buyer") = Dollars(400)
    /\ RecentPrice(fn_history, "seller") = Dollars(440)
    /\ fn_price = Dollars(420)

\* C13: _check_convergence returns false for a history of fewer than 2 turns
\* or when a party has no offer price in it; otherwise it returns true
\* exactly when the most recent buyer and seller offer prices differ by at
\* most the threshold.
C13_Convergence ==
    fn_op = "convergence" =>
        LET b == RecentPrice(fn_history, "buyer")
            s == RecentPrice(fn_history, "seller")
        IN  IF Len(fn_history) < 2 \/ b = NoneP \/ s = NoneP
            THEN fn_bool = FALSE
            ELSE fn_bool = (b - s <= Dollars(20) /\ s - b <= Dollars(20))

C13_Witness ==
    /\ fn_op = "convergence"
    /\ RecentPrice(fn_history, "buyer") = Dollars(430)
    /\ RecentPrice(fn_history, "seller") = Dollars(450)
    /\ fn_bool = TRUE

\* C11: a seller decision that accepts at a price below min_acceptable is
\* normalized to a counter_offer at min_acceptable.
C11_AcceptBelowFloorBecomesCounter ==
    (fn_op = "seller" /\ fn_parsed.action = "accept"
        /\ IsNumber(fn_parsed.offer_price) /\ fn_parsed.offer_price < fn_min) =>
        /\ fn_dec.action = "counter_offer"
        /\ fn_dec.offer_price = fn_min

\* C14: for each role and a fixed state, normalizing the Decision produced
\* by _normalize_response returns the identical Decision.
C14_NormalizerIdempotent ==
    fn_op \in {"buyer2", "seller2"} => fn_dec2 = fn_dec

C14_Witness ==
    /\ fn_op = "seller2"
    /\ fn_parsed.action = "counter_offer"
    /\ fn_parsed.offer_price = Dollars(380)
    /\ fn_parsed.message.k = "empty"
    /\ fn_parsed.confidence = Conf("num", 15)
    /\ fn_dec = Decision("counter_offer", fn_min, Msg("counter_tpl", fn_min),
                         Conf("num", 10))
    /\ fn_dec2 = fn_dec

\* C20: the normalized action is in the role's allowed set, and an absent or
\* unknown action becomes "offer" for the buyer and "reject" for the seller.
C20_ActionInAllowedSet ==
    /\ fn_op = "buyer" =>
        /\ fn_dec.action \in {"offer", "counter_offer", "accept", "reject", "walk_away"}
        /\ (fn_parsed.action \notin
                {"offer", "counter_offer", "accept", "reject", "walk_away"}
             => fn_dec.action = "offer")
    /\ fn_op = "seller" =>
        /\ fn_dec.action \in {"accept", "reject", "counter_offer"}
        /\ (fn_parsed.action \notin {"accept", "reject", "counter_offer"}
             => fn_dec.action = "reject")

C20_Witness ==
    /\ fn_op = "seller"
    /\ fn_parsed.action = "walk_away"
    /\ fn_dec.action = "reject"

\* ---------------------------------------------------------------------
\* api.py: two /api/negotiate requests served by concurrent threads, each
\* driving negotiate.run_negotiation over the module globals of negotiate
\* ---------------------------------------------------------------------
MAX_TURNS == 10

\* start_negotiation_endpoint stores the request's platform data, buyer
\* preferences and seller preferences in the globals of negotiate and
\* enters run_negotiation
ApiStartNegotiation(r) ==
    /\ api_pc[r] = "idle"
    /\ api_globals' = r
    /\ api_pc' = [api_pc EXCEPT ![r] = "running"]
    /\ api_turn' = [api_turn EXCEPT ![r] = 1]
    /\ UNCHANGED api_used

\* one iteration of run_negotiation's for loop: the agent state is built
\* from the globals as they are now; the loop goes on unless the agent
\* accepts, the seller rejects, an agent raises or MAX_TURNS is reached
ApiTakeTurn(r) ==
    /\ api_pc[r] = "running"
    /\ api_used' = [api_used EXCEPT ![r] = Append(@, api_globals)]
    /\ \E stops \in BOOLEAN :
          IF stops \/ api_turn[r] >= MAX_TURNS
          THEN /\ api_pc' = [api_pc EXCEPT ![r] = "done"]
               /\ api_turn' = api_turn
          ELSE /\ api_pc' = api_pc
               /\ api_turn' = [api_turn EXCEPT ![r] = @ + 1]
    /\ UNCHANGED api_globals

ApiStart == \E r \in Requests : ApiStartNegotiation(r) /\ UNCHANGED << loopvars, fnvars, srvvars, multivars >>

ApiTurn == \E r \in Requests : ApiTakeTurn(r) /\ UNCHANGED << loopvars, fnvars, srvvars, multivars >>

ApiNext == ApiStart \/ ApiTurn

ApiSpec == Init /\ [][ApiNext]_vars

\* C15: every turn of a negotiation started through /api/negotiate is
\* decided with the platform data and the buyer and seller preferences of
\* its own request, also when two requests are interleaved.
C15_OwnRequestData ==
    \A r \in Requests :
        \A i \in 1..Len(api_used[r]) : api_used[r][i] = r

\* C16: every result has status success, no_deal or error, and a no_deal or
\* error result reports the asking price as negotiated price and savings 0.
C16_ResultStatusAndPrice ==
    pc = "returned" =>
        /\ result.status \in {"success", "no_deal", "error"}
        /\ result.status \in {"no_deal", "error"} =>
              /\ result.negotiated_price = asking_price
              /\ result.savings = 0

C16_Witness ==
    /\ pc = "returned"
    /\ asking_price = Dollars(450)
    /\ Len(history) = 2
    /\ history[2].action = "reject"
    /\ history[1].offer_price = Dollars(420)
    /\ result.status = "no_deal"
    /\ result.negotiated_price = Dollars(450)

PartyOfTurn(i) == IF i % 2 = 1 THEN "buyer" ELSE "seller"

WellFormedHistory(h) ==
    \A i \in 1..Len(h) : h[i].turn = i /\ h[i].party = PartyOfTurn(i)

\* C17: the history is the sequence of turns 1..n, odd turns by the buyer
\* and even turns by the seller, and a step only ever appends to it.
C17_HistoryAppendOnly ==
    [][ /\ WellFormedHistory(history')
        /\ Len(history') >= Len(history)
        /\ SubSeq(history', 1, Len(history)) = history ]_vars

C17_Witness ==
    /\ Len(history) = 3
    /\ history[1].party = "buyer" /\ history[1].turn = 1
    /\ history[2].party = "seller" /\ history[2].turn = 2
    /\ history[3].party = "buyer" /\ history[3].turn = 3

\* C18: the loop stops before turn max_turns only after an accept, a buyer
\* walk_away, a seller reject or a failure of the decision source; a
\* walk_away or seller reject ends it as no_deal with no further turn, and
\* any other decision on a turn n < max_turns is followed by turn n + 1.
C18_StopsOnlyOnTerminalDecision ==
    (asking_price > 0 /\ last_call.party # "none" /\ ~last_call.raised) =>
        LET a == last_call.response.action
            n == last_call.turn
        IN  IF a = StopAction(last_call.party)
            THEN /\ pc = "returned"
                 /\ result.status = "no_deal"
                 /\ result.turn_count = n
            ELSE (a # "accept" /\ n < max_turns) =>
                    /\ pc = "loop"
                    /\ turn_num = n + 1

\* the step ran lines 185-194: a turn was appended whose action neither
\* closes the deal nor stops the negotiation
ConvergenceChecked ==
    /\ pc = "loop"
    /\ Len(history') = Len(history) + 1
    /\ LET t == history'[Len(history')]
       IN  t.action \notin {"accept", StopAction(t.party)}

\* C19: a true convergence check only appends one system message to the
\* transcript; history, final price, turn counter and result are what they
\* are when the check is false.
C19_ConvergenceAdvisory ==
    [][ ConvergenceChecked =>
          LET t == history'[Len(history')]
              said == Append(messages, NegotiationMessage(t.party, t.message))
              noted == IF check_convergence(history')
                       THEN Append(said, NegotiationMessage("system", Msg("converging", 0)))
                       ELSE said
          IN  /\ SubSeq(history', 1, Len(history)) = history
              /\ final_price' = final_price
              /\ IF turn_num < max_turns
                 THEN /\ pc' = "loop"
                      /\ turn_num' = turn_num + 1
                      /\ result' = result
                      /\ messages' = noted
                 ELSE /\ pc' = "returned"
                      /\ result' = [status |-> "no_deal",
                                    negotiated_price |-> asking_price,
                                    savings |-> 0,
                                    turn_count |-> Len(history')]
                      /\ messages' = Append(noted,
                             NegotiationMessage("system", Msg("no_agreement", 0))) ]_vars

C19_Witness ==
    /\ pc = "loop"
    /\ turn_num = 3
    /\ Len(history) = 2
    /\ check_convergence(history)
    /\ messages[Len(messages)] = NegotiationMessage("system", Msg("converging", 0))
    /\ final_price = NoneP
    /\ result = NoResult

\* the listing has a positive price and the budget override, when given, is
\* positive
ValidInput ==
    /\ asking_price > 0
    /\ budget_override = NoneP \/ budget_override > 0

\* C21: every buyer turn in history that carries an offer_price has
\* offer_price <= max_budget.
C21_BuyerPriceWithinBudget ==
    ValidInput =>
        \A i \in 1..Len(history) :
            (history[i].party = "buyer" /\ history[i].offer_price # NoneP) =>
                history[i].offer_price <= buyer_budget

\* C22: every seller turn in history with action counter_offer and a
\* numeric offer_price has offer_price >= min_acceptable.
C22_SellerCounterAtOrAboveFloor ==
    \A i \in 1..Len(history) :
        (/\ history[i].party = "seller"
         /\ history[i].action = "counter_offer"
         /\ IsNumber(history[i].offer_price)) =>
            history[i].offer_price >= seller_minimum

C22_Witness ==
    /\ ValidInput
    /\ last_call.party = "seller"
    /\ last_call.turn = 2
    /\ Len(history) = 2
    /\ history[2].action = "counter_offer"
    /\ history[2].offer_price = seller_minimum
    /\ seller_minimum = Dollars(396)

\* C23: every turn in history has a numeric confidence within [0.0, 1.0].
C23_ConfidenceInUnitInterval ==
    ValidInput =>
        \A i \in 1..Len(history) :
            /\ history[i].confidence.k = "num"
            /\ history[i].confidence.v >= 0
            /\ history[i].confidence.v <= 10

\* C24: every turn in history whose action is reject or walk_away has an
\* absent offer_price.
C24_NoPriceOnRejectOrWalkAway ==
    ValidInput =>
        \A i \in 1..Len(history) :
            history[i].action \in {"reject", "walk_away"} =>
                history[i].offer_price = NoneP

\* C25: every offer or counter_offer turn in history carries a numeric
\* price: a missing or non-numeric raw price is replaced by the fallback
\* price for the history of that turn.
C25_PricedOffers ==
    ValidInput =>
        \A i \in 1..Len(history) :
            history[i].action \in {"offer", "counter_offer"} =>
                IsNumber(history[i].offer_price)

\* C26: when the seller's normalized decision is accept with no price, the
\* run ends with status success at the most recent buyer offer price.
C26_SellerAcceptWithoutPrice ==
    (/\ ValidInput
     /\ last_call.party = "seller"
     /\ ~last_call.raised
     /\ IsStr(last_call.response.message)
     /\ last_call.response.action = "accept"
     /\ last_call.response.offer_price = NoneP) =>
        /\ pc = "returned"
        /\ result.status = "success"
        /\ result.negotiated_price = RecentPrice(history, "buyer")

FromParty(m) == m.role \in {"buyer", "seller"}

\* the (role, content) pair of each turn of h, in order
Projected(h) ==
    [i \in 1..Len(h) |-> NegotiationMessage(h[i].party, h[i].message)]

\* C27: turn_count of every result is the number of turns appended to
\* history, the first message is the system start message, and the messages
\* with role buyer or seller are exactly the messages of the history turns,
\* in order.
C27_TurnCountAndTranscript ==
    pc = "returned" =>
        /\ result.turn_count = Len(history)
        /\ messages[1] = NegotiationMessage("system", Msg("started", 0))
        /\ SelectSeq(messages, FromParty) = Projected(history)

C27_Witness ==
    /\ pc = "returned"
    /\ ValidInput
    /\ result.status = "success"
    /\ Len(history) = 2
    /\ result.turn_count = 2
    /\ Len(messages) = 4
    /\ SelectSeq(messages, FromParty) = Projected(history)

\* C28: a buyer price of 0.0 recorded in a turn, which is what the fallback
\* estimator produces for lack of information, never makes the convergence
\* detector report convergence.
C28_ZeroPriceNeverConverges ==
    (/\ fn_op = "convergence"
     /\ RecentPrice(fn_history, "buyer") = 0
     /\ RecentPrice(fn_history, "seller") > 0) =>
        fn_bool = FALSE

\* ---------------------------------------------------------------------
\* Legacy agents (src/buyer_agent.py, src/seller_agent.py), used by
\* api_server.py and by negotiate.py
\* ---------------------------------------------------------------------
\* the value an agent call leaves: it raised, or it returned offer
Returns(offer) == [raised |-> FALSE, offer |-> offer]

Raises == [raised |-> TRUE, offer |-> NoDecision]

\* all four keys present and 0.0 <= confidence <= 1.0
ValidLegacyShape(raw) ==
    /\ raw.kind = "dict"
    /\ raw.message.k # "absent"
    /\ raw.confidence.k = "num"
    /\ raw.confidence.v >= 0
    /\ raw.confidence.v <= 10

make_offer(raw, max_budget) ==
    IF ~ValidLegacyShape(raw) THEN Raises
    ELSE IF raw.action \notin {"accept", "counter", "reject", "walk_away"} THEN Raises
    ELSE IF raw.action \in {"counter", "accept"}
    THEN IF ~IsNumber(raw.offer_price) THEN Raises
         ELSE Returns(Decision(raw.action, Min(raw.offer_price, max_budget),
                               raw.message, raw.confidence))
    ELSE Returns(Decision(raw.action, raw.offer_price, raw.message, raw.confidence))

respond_to_offer(raw, min_acceptable) ==
    IF ~ValidLegacyShape(raw) THEN Raises
    ELSE IF raw.action \notin {"accept", "counter", "reject"} THEN Raises
    ELSE IF raw.action \in {"counter", "accept"}
    THEN IF ~IsNumber(raw.offer_price) THEN Raises
         ELSE IF raw.offer_price < min_acceptable
         THEN Returns(Decision("counter", min_acceptable,
                               IF raw.action = "accept"
                               THEN Msg("floor_note", min_acceptable)
                               ELSE raw.message,
                               raw.confidence))
         ELSE Returns(Decision(raw.action, raw.offer_price, raw.message,
                               raw.confidence))
    ELSE Returns(Decision(raw.action, raw.offer_price, raw.message, raw.confidence))

\* ---------------------------------------------------------------------
\* api_server.py: run_single_negotiation and run_single_negotiation_streaming
\* run side by side on the same listing and the same agent outputs
\* ---------------------------------------------------------------------
api_server_max_turns == 8

\* (price, buyer_budget_override)
SrvListings == { <<Dollars(450), NoneP>>, <<Dollars(450), Dollars(500)>> }

LegacyRaw(a, p) == Raw("dict", a, p, Msg("text", 0), Conf("num", 5))

SrvBuyerOutputs ==
    { Raise, LegacyRaw("walk_away", NoneP), LegacyRaw("reject", NoneP),
      LegacyRaw("counter", Dollars(420)), LegacyRaw("accept", Dollars(450)) }

SrvSellerOutputs ==
    { Raise, LegacyRaw("reject", NoneP), LegacyRaw("counter", Dollars(440)),
      LegacyRaw("accept", Dollars(380)), LegacyRaw("accept", Dollars(420)),
      LegacyRaw("accept", Dollars(450)) }

\* One iteration of the for loop, which the two functions share line by
\* line: said is what the iteration appends to messages (or yields)
SrvOutcome(h, fp, said, exit) ==
    [history |-> h, final_price |-> fp, said |-> said, exit |-> exit]

SrvTurnBody(party, n, raw, h, fp, budget, minimum) ==
    LET out == IF party = "buyer" THEN make_offer(raw, budget)
               ELSE respond_to_offer(raw, minimum)
        r == out.offer
        h1 == Append(h, Turn(n, party, r))
        said1 == << NegotiationMessage(party, r.message) >>
    IN  IF out.raised THEN SrvOutcome(h, fp, << >>, "raise")
        ELSE IF r.action = "accept"
        THEN SrvOutcome(h1, r.offer_price,
                        Append(said1, DealBanner(party, r.offer_price)), "break")
        ELSE IF r.action = StopAction(party)
        THEN SrvOutcome(h1, fp, Append(said1, StopBanner(party)), "break")
        ELSE SrvOutcome(h1, fp, AppendConvergence(h1, said1), "continue")

SrvLoopEnds(n, exit) == exit = "break" \/ n >= api_server_max_turns

\* run_single_negotiation: collect the messages, return a NegotiationResult
SingleStep(st, party, raw) ==
    LET o == SrvTurnBody(party, st.turn_num, raw, st.history, st.final_price,
                         st.buyer_budget, st.seller_minimum)
        msgs == st.messages \o o.said
    IN  IF o.exit = "raise"
        THEN [st EXCEPT !.pc = "returned",
                        !.messages = Append(msgs,
                            NegotiationMessage("system", Msg("error", 0))),
                        !.result = SrvResult("error", st.asking_price, 0)]
        ELSE IF SrvLoopEnds(st.turn_num, o.exit)
        THEN IF o.final_price # NoneP
             THEN [st EXCEPT !.pc = "returned", !.history = o.history,
                             !.final_price = o.final_price, !.messages = msgs,
                             !.result = SrvResult("success", o.final_price,
                                            st.asking_price - o.final_price)]
             ELSE [st EXCEPT !.pc = "returned", !.history = o.history,
                             !.final_price = st.asking_price,
                             !.messages = Append(msgs,
                                 NegotiationMessage("system", Msg("no_agreement", 0))),
                             !.result = SrvResult("no_deal", st.asking_price, 0)]
        ELSE [st EXCEPT !.history = o.history, !.final_price = o.final_price,
                        !.messages = msgs, !.turn_num = st.turn_num + 1]

\* the JSON lines the generator yields
MessageEvent(m) ==
    [type |-> "message", role |-> m.role, content |-> m.content,
     status |-> "none", negotiated_price |-> 0, savings |-> 0]

ErrorEvent ==
    [type |-> "error", role |-> "none", content |-> Msg("error", 0),
     status |-> "none", negotiated_price |-> 0, savings |-> 0]

CompleteEvent(asking, fp) ==
    [type |-> "complete", role |-> "none", content |-> Msg("absent", 0),
     status |-> IF fp < asking THEN "success" ELSE "no_deal",
     negotiated_price |-> fp,
     savings |-> IF fp < asking THEN asking - fp ELSE 0]

MessageEvents(said) == [i \in 1..Len(said) |-> MessageEvent(said[i])]

\* run_single_negotiation_streaming: yield the messages, then "complete"
StreamingStep(st, party, raw) ==
    LET o == SrvTurnBody(party, st.turn_num, raw, st.history, st.final_price,
                         st.buyer_budget, st.seller_minimum)
        evs == st.events \o MessageEvents(o.said)
    IN  IF o.exit = "raise"
        THEN [st EXCEPT !.pc = "returned", !.events = Append(evs, ErrorEvent)]
        ELSE IF SrvLoopEnds(st.turn_num, o.exit)
        THEN IF o.final_price # NoneP
             THEN [st EXCEPT !.pc = "returned", !.history = o.history,
                             !.final_price = o.final_price,
                             !.events = Append(evs,
                                 CompleteEvent(st.asking_price, o.final_price))]
             ELSE [st EXCEPT !.pc = "returned", !.history = o.history,
                             !.final_price = st.asking_price,
                             !.events = Append(
                                 Append(evs, MessageEvent(
                                     NegotiationMessage("system", Msg("no_agreement", 0)))),
                                 CompleteEvent(st.asking_price, st.asking_price))]
        ELSE [st EXCEPT !.history = o.history, !.final_price = o.final_price,
                        !.events = evs, !.turn_num = st.turn_num + 1]

\* both functions are called with the same listing and budget override
SrvStart ==
    /\ single.pc = "idle"
    /\ streaming.pc = "idle"
    /\ \E l \in SrvListings :
         LET budget == DeriveBuyerBudget(l[1], l[2])
             minimum == DeriveSellerMinimum(l[1])
             started == NegotiationMessage("system", Msg("started", 0))
         IN  /\ single' = [SingleNotCalled EXCEPT
                             !.pc = "loop", !.asking_price = l[1],
                             !.buyer_budget = budget, !.seller_minimum = minimum,
                             !.turn_num = 1, !.messages = << started >>]
             /\ streaming' = [StreamingNotCalled EXCEPT
                             !.pc = "loop", !.asking_price = l[1],
                             !.buyer_budget = budget, !.seller_minimum = minimum,
                             !.turn_num = 1, !.events = << MessageEvent(started) >>]
    /\ UNCHANGED << loopvars, fnvars, apivars, multivars >>

\* the next agent call of both functions gets the same output
SrvTurn ==
    /\ single.pc = "loop"
    /\ streaming.pc = "loop"
    /\ LET party == IF single.turn_num % 2 = 1 THEN "buyer" ELSE "seller"
       IN  \E raw \in (IF party = "buyer" THEN SrvBuyerOutputs ELSE SrvSellerOutputs) :
              /\ single' = SingleStep(single, party, raw)
              /\ streaming' = StreamingStep(streaming, party, raw)
    /\ UNCHANGED << loopvars, fnvars, apivars, multivars >>

SrvNext == SrvStart \/ SrvTurn

StreamSpec == Init /\ [][SrvNext]_vars

\* the messages among the streamed events, as (role, content) pairs
IsMessageEvent(e) == e.type = "message"

StreamedMessages(evs) ==
    LET ms == SelectSeq(evs, IsMessageEvent)
    IN  [i \in 1..Len(ms) |-> NegotiationMessage(ms[i].role, ms[i].content)]

\* C29: for the same listing and the same agent outputs the streamed
\* messages equal the collected messages, and the last event is a
\* "complete" event with the status, negotiated_price and savings of the
\* NegotiationResult.
C29_StreamingMatchesCollected ==
    (single.pc = "returned" /\ streaming.pc = "returned") =>
        LET last == streaming.events[Len(streaming.events)]
        IN  /\ StreamedMessages(streaming.events) = single.messages
            /\ last.type = "complete"
            /\ last.status = single.result.status
            /\ last.negotiated_price = single.result.negotiated_price
            /\ last.savings = single.result.savings

\* ---------------------------------------------------------------------
\* negotiate.py: run_multi_buyer_negotiation, one seller and the buyers of
\* MULTI_BUYER_CONFIGS (the first two of them)
\* ---------------------------------------------------------------------
\* 8 in negotiate.py; the model runs fewer rounds
MAX_ROUNDS == 2

\* max_budget of buyer_1 and buyer_2
MultiBudget(b) == IF b = 1 THEN Dollars(680) ELSE Dollars(720)

\* SELLER_PREFS["min_acceptable"]
MultiMinAcceptable == Dollars(650)

\* what the buyer's model may answer: an error, an offer, or leaving the
\* negotiation without or with a price in offer_price
MultiBuyerOutputs ==
    { Raise, LegacyRaw("counter", Dollars(700)),
      LegacyRaw("walk_away", NoneP), LegacyRaw("walk_away", Dollars(660)),
      LegacyRaw("reject", NoneP) }

\* what the seller's model may answer to an offer
MultiSellerAnswers == { "raise", "counter", "accept" }

MultiSellerRaw(answer, offer) ==
    IF answer = "raise" THEN Raise
    ELSE IF answer = "counter" THEN LegacyRaw("counter", Dollars(740))
    ELSE LegacyRaw("accept", offer)

\* an entry of buyers[buyer_id]["history"]; by tells which agent wrote it
MultiEntry(round, by, d) ==
    [round |-> round, by |-> by, action |-> d.action, offer_price |-> d.offer_price]

\* Phase 1 for one buyer: status and history after make_offer, and the
\* offer put into buyer_offers (NoneP when none)
MultiPhase1(b, round, raw, st) ==
    LET out == make_offer(raw, MultiBudget(b))
        r == out.offer
    IN  IF out.raised
        THEN [status |-> "error", history |-> st.history[b], offer |-> NoneP]
        ELSE [status |-> IF r.action = "walk_away" THEN "walked_away"
                         ELSE IF r.action = "reject" THEN "rejected"
                         ELSE st.status[b],
              history |-> Append(st.history[b], MultiEntry(round, "buyer", r)),
              offer |-> IF Truthy(r.offer_price) THEN r.offer_price ELSE NoneP]

\* the buyer with the highest accepted price, the first one on a tie
\* (0 when the seller accepted nobody)
RECURSIVE BestAcceptor(_, _, _, _)
BestAcceptor(bs, accepts, best, best_price) ==
    IF bs = {} THEN [buyer |-> best, price |-> best_price]
    ELSE LET b == CHOOSE x \in bs : \A y \in bs : x <= y
         IN  IF accepts[b] # NoneP /\ accepts[b] > best_price
             THEN BestAcceptor(bs \ {b}, accepts, b, accepts[b])
             ELSE BestAcceptor(bs \ {b}, accepts, best, best_price)

\* one iteration of the for loop over the rounds
MultiRoundBody(st, braw, sanswer) ==
    LET round == st.round_num
        active == { b \in Buyers : st.status[b] = "active" }
        p1 == [b \in Buyers |->
                 IF b \in active THEN MultiPhase1(b, round, braw[b], st)
                 ELSE [status |-> st.status[b], history |-> st.history[b],
                       offer |-> NoneP]]
        sout == [b \in Buyers |->
                   IF p1[b].offer # NoneP
                   THEN respond_to_offer(MultiSellerRaw(sanswer[b], p1[b].offer),
                                         MultiMinAcceptable)
                   ELSE Raises]
        hist2 == [b \in Buyers |->
                    IF sout[b].raised THEN p1[b].history
                    ELSE Append(p1[b].history,
                                MultiEntry(round, "seller", sout[b].offer))]
        accepts == [b \in Buyers |->
                      IF ~sout[b].raised /\ sout[b].offer.action = "accept"
                      THEN sout[b].offer.offer_price ELSE NoneP]
        best == BestAcceptor(Buyers, accepts, 0, 0)
    IN  IF active = {}
        THEN [st EXCEPT !.pc = "done"]
        ELSE IF best.buyer # 0
        THEN [st EXCEPT !.pc = "done",
                        !.history = hist2,
                        !.status = [b \in Buyers |->
                                      IF b = best.buyer THEN "accepted"
                                      ELSE p1[b].status],
                        !.final_buyer = best.buyer,
                        !.final_price = best.price]
        ELSE [st EXCEPT !.pc = IF round >= MAX_ROUNDS THEN "done" ELSE "round",
                        !.round_num = IF round >= MAX_ROUNDS THEN round ELSE round + 1,
                        !.history = hist2,
                        !.status = [b \in Buyers |-> p1[b].status]]

MultiStart ==
    /\ multi.pc = "idle"
    /\ multi' = [multi EXCEPT !.pc = "round", !.round_num = 1]
    /\ UNCHANGED << loopvars, fnvars, apivars, srvvars >>

MultiRound ==
    /\ multi.pc = "round"
    /\ \E braw \in [Buyers -> MultiBuyerOutputs],
          sanswer \in [Buyers -> MultiSellerAnswers] :
            multi' = MultiRoundBody(multi, braw, sanswer)
    /\ UNCHANGED << loopvars, fnvars, apivars, srvvars >>

MultiNext == MultiStart \/ MultiRound

MultiSpec == Init /\ [][MultiNext]_vars

\* the buyer wrote a walk_away or reject into entry i of its history
Leaves(h, i) == h[i].by = "buyer" /\ h[i].action \in {"walk_away", "reject"}

\* the price at which the seller accepted buyer b in the current round
AcceptedAt(b) ==
    LET h == multi.history[b]
    IN  IF /\ Len(h) > 0
           /\ h[Len(h)].by = "seller"
           /\ h[Len(h)].action = "accept"
           /\ h[Len(h)].round = multi.round_num
        THEN h[Len(h)].offer_price ELSE NoneP

\* C30: a buyer that walked away or rejected gets no further entry in its
\* history (no later offer, no later seller response) and is not the
\* winner; at most one buyer is accepted; the winner's price is the highest
\* price the seller accepted in that round.
C30_InactiveBuyersStayOut ==
    /\ \A b \in Buyers :
          \A i \in 1..Len(multi.history[b]) :
              Leaves(multi.history[b], i) => i = Len(multi.history[b])
    /\ Cardinality({ b \in Buyers : multi.status[b] = "accepted" }) <= 1
    /\ multi.final_buyer # 0 =>
          /\ multi.status[multi.final_buyer] = "accepted"
          /\ \A i \in 1..Len(multi.history[multi.final_buyer]) :
                ~Leaves(multi.history[multi.final_buyer], i)
          /\ AcceptedAt(multi.final_buyer) = multi.final_price
          /\ \A b \in Buyers : AcceptedAt(b) <= multi.final_price

====
